---- MODULE Spec2Model ----
(***************************************************************************)
(* Camino MCP server: the tool dispatcher (CaminoMCPServer, stdio entry),  *)
(* the session-factory server (createStatelessServer, docker entry) and    *)
(* the upstream client (CaminoApiService), as a state machine over the     *)
(* process (its entrypoint, environment and startup) and the requests in   *)
(* flight.                                                                 *)
(*                                                                         *)
(* JavaScript objects are functions from property names to values; a       *)
(* property whose value is undefined is a property outside the DOMAIN      *)
(* (reading it gives undefined, JSON and axios drop it on the wire).       *)
(* An error text (a message, an upstream detail) is the sequence of the    *)
(* parts it is concatenated from; the empty string is <<>>.                *)
(***************************************************************************)
EXTENDS Integers, Sequences, FiniteSets, Bags, TLC

\* proc: the process: the entrypoint it runs, its environment, whether
\*   the log file can be appended to, how far main() has come, and what
\*   startup wrote to the console and to the log file;
\* server: the server instance main() constructed (none before), with the
\*   configuration of its CaminoApiService;
\* inflight: the bag of requests the host has sent and not yet been
\*   answered, each with the calls it issued and what it wrote so far
VARIABLES proc, server, inflight

vars == <<proc, server, inflight>>

(* ------------------------------------------------------------------ *)
(* Bounds of the model                                                 *)
(* ------------------------------------------------------------------ *)

\* invocations the host has outstanding at the same time
MaxInFlight == 2

(* ------------------------------------------------------------------ *)
(* JavaScript expression forms used by the handlers                    *)
(* ------------------------------------------------------------------ *)

Has(o, f) == f \in DOMAIN o

\* { f: o.f, ... } for the properties fs: undefined ones stay absent
Pick(o, fs) == [f \in (fs \cap DOMAIN o) |-> o[f]]

\* o.f || d, for a property declared as a number (0 is falsy)
OrNum(o, f, d) == IF Has(o, f) /\ o[f] # 0 THEN o[f] ELSE d

\* o.f || d, for a property declared as a string ("" is falsy)
OrStr(o, f, d) == IF Has(o, f) /\ o[f] # "" THEN o[f] ELSE d

\* o.f || d, for a property declared as a boolean (false is falsy)
OrBool(o, f, d) == IF Has(o, f) /\ o[f] # FALSE THEN o[f] ELSE d

\* o.f || d, for a property declared as an array (every array is truthy)
OrArr(o, f, d) == IF Has(o, f) THEN o[f] ELSE d

\* o.f !== false
NotFalse(o, f) == ~(Has(o, f) /\ o[f] = FALSE)

\* the object o with its properties renamed: ren maps wire name -> property
Rename(o, ren) == [w \in {x \in DOMAIN ren : Has(o, ren[x])} |-> o[ren[w]]]

(* ------------------------------------------------------------------ *)
(* Tool names                                                          *)
(* ------------------------------------------------------------------ *)

ToolNames ==
  { "camino_query", "camino_search", "camino_spatial_relationship",
    "camino_place_context", "camino_journey_planning", "camino_route_planning" }

AllInclude == <<"distance", "direction", "travel_time", "description">>

(* ------------------------------------------------------------------ *)
(* Console and Logger                                                  *)
(* ------------------------------------------------------------------ *)

\* console.error(...) and process.stderr.write(...): a write to fd 2;
\* console.log(...) would be a write to fd 1, the protocol channel
ConsoleError_AsLog(text) == [fd |-> "stdout", text |-> text]

ConsoleError(text) == [fd |-> "stderr", text |-> text]
StderrWrite(text) == [fd |-> "stderr", text |-> text]

\* Logger.debugMode, read from the environment when the class is loaded
DebugMode(env) ==
  \/ (Has(env, "NODE_ENV") /\ env.NODE_ENV = "development")
  \/ (Has(env, "MCP_DEBUG") /\ env.MCP_DEBUG = "true")

\* the static state of Logger in the process p
LoggerOf(p) == [debugMode |-> DebugMode(p.env), writable |-> p.writable]

\* Logger.writeToFile: the lines appended to camino-mcp.log (the timestamp
\* is left out); data is <<>> for a call without data, <<d>> with data d;
\* a failing appendFileSync is swallowed and appends nothing
WriteToFile(lg, level, message, data) ==
  IF lg.writable
  THEN << [level |-> level, message |-> message]
          @@ [f \in (IF Len(data) = 1 THEN {"data"} ELSE {}) |-> data[1]] >>
  ELSE <<>>

LoggerDebug(lg, message, data) ==
  IF lg.debugMode THEN WriteToFile(lg, "DEBUG", message, data) ELSE <<>>

LoggerInfo(lg, message, data) == WriteToFile(lg, "INFO", message, data)

(* ------------------------------------------------------------------ *)
(* Upstream client: CaminoApiService                                   *)
(* ------------------------------------------------------------------ *)

DefaultTimeout == 30000

\* the names bound in the scope of services/camino-api.ts
ApiModuleScope ==
  { "axios", "AxiosInstance", "QueryRequest", "SearchRequest",
    "SpatialRelationshipRequest", "PlaceContextRequest",
    "JourneyPlanningRequest", "RoutePlanningRequest", "ApiResponse",
    "CaminoApiConfig", "CaminoApiService" }

\* how an async function ends: it returns a value or it throws (rejects)
Return(v) == [threw |-> FALSE, value |-> v]
Throw(e) == [threw |-> TRUE, error |-> e]

\* evaluating an identifier that no declaration of the module binds
ReferenceError(id) == [name |-> "ReferenceError", message |-> <<id, " is not defined">>]

\* reading .map of request.waypoints when it is undefined
TypeErrorMap ==
  [name |-> "TypeError",
   message |-> <<"Cannot read properties of undefined (reading 'map')">>]

\* axios.create: every request of the instance carries these
ClientDefaults(cfg) ==
  [baseURL |-> cfg.baseUrl,
   timeout |-> IF Has(cfg, "timeout") /\ cfg.timeout # 0 THEN cfg.timeout ELSE DefaultTimeout,
   headers |-> [ContentType |-> "application/json",
                Accept |-> "application/json",
                XAPIKey |-> cfg.apiKey]]

\* the key sent as a query parameter as well
ClientGet_KeyInParams(cfg, path, params) ==
  ClientDefaults(cfg)
  @@ [method |-> "GET", path |-> path, params |-> params @@ [api_key |-> cfg.apiKey]]

\* this.client.get(path, {params})
ClientGet(cfg, path, params) ==
  ClientDefaults(cfg) @@ [method |-> "GET", path |-> path, params |-> params]

\* this.client.post(path, null, {params}): no body is sent
ClientPostParams(cfg, path, params) ==
  ClientDefaults(cfg) @@ [method |-> "POST", path |-> path, params |-> params]

\* this.client.post(path, requestBody)
ClientPost(cfg, path, body) ==
  ClientDefaults(cfg) @@ [method |-> "POST", path |-> path, body |-> body]

\* the transport message, whatever the response carries
ErrorText_MessageOnly(error) == error.message

\* error.response?.data?.detail || error.message
ErrorText(error) ==
  IF /\ Has(error, "response")
     /\ Has(error.response, "data")
     /\ Has(error.response.data, "detail")
     /\ error.response.data.detail # <<>>
  THEN error.response.data.detail
  ELSE error.message

\* { success: true, data: response.data }
SuccessEnvelope(response) == [success |-> TRUE, data |-> response.data]

\* { success: false, error: ..., data: fallback }
FailureEnvelope(error, fallback) ==
  [success |-> FALSE, error |-> ErrorText(error), data |-> fallback]

\* Logger.error(...) in a catch block of camino-api.ts
ApiLoggerError(envelope) ==
  IF "Logger" \in ApiModuleScope
  THEN Return(envelope)
  ELSE Throw(ReferenceError("Logger"))

\* ---- executeQuery
QueryCall(cfg, request) ==
  ClientGet(cfg, "/query",
    Rename(request, [q |-> "query", lat |-> "latitude", lon |-> "longitude",
                     radius |-> "radius", rank |-> "rank", limit |-> "limit",
                     answer |-> "generate_answer"]))

QueryFallback(request) ==
  Pick(request, {"query"}) @@ [results |-> <<>>, total_found |-> 0, ai_ranked |-> FALSE]

\* ---- executeSearch
SearchCall(cfg, request) ==
  ClientPostParams(cfg, "/search", Rename(request, [q |-> "query"]))

SearchFallback(request) ==
  Pick(request, {"query"}) @@ [results |-> <<>>, total_found |-> 0, source |-> "nominatim"]

\* ---- calculateSpatialRelationship
StartPoint(request) == Rename(request, [lat |-> "start_latitude", lon |-> "start_longitude"])
EndPoint(request) == Rename(request, [lat |-> "end_latitude", lon |-> "end_longitude"])

\* the path the README lists for the endpoint
RelationshipCall_ReadmePath(cfg, request) ==
  ClientPost(cfg, "/spatial/relationship",
    [start |-> StartPoint(request), end |-> EndPoint(request)] @@ Pick(request, {"include"}))

RelationshipCall(cfg, request) ==
  ClientPost(cfg, "/relationship",
    [start |-> StartPoint(request), end |-> EndPoint(request)] @@ Pick(request, {"include"}))

RelationshipFallback(request) ==
  [start_location |-> StartPoint(request), end_location |-> EndPoint(request)]

\* ---- getPlaceContext
Location(request) == Rename(request, [lat |-> "latitude", lon |-> "longitude"])

ContextCall(cfg, request) ==
  ClientPost(cfg, "/context",
    [location |-> Location(request)] @@ Pick(request, {"radius", "context"}))

ContextFallback(request) ==
  [location |-> Location(request), relevant_places |-> <<>>, total_places_found |-> 0]

\* ---- planJourney
\* request.waypoints.map(wp => ({ lat: wp.lat, lon: wp.lon, purpose: wp.purpose }))
MapWaypoints(wps) == [i \in 1..Len(wps) |-> Pick(wps[i], {"lat", "lon", "purpose"})]

JourneyCall(cfg, request) ==
  ClientPost(cfg, "/journey",
    [waypoints |-> MapWaypoints(request.waypoints),
     constraints |-> [transport |-> OrStr(request, "transport_mode", "walking")]
                     @@ Pick(request, {"time_budget"})])

JourneyFallback(request) == Pick(request, {"waypoints"}) @@ [feasible |-> FALSE]

\* ---- planRoute
RouteCall(cfg, request) ==
  ClientGet(cfg, "/route",
    Rename(request, [start_lat |-> "start_latitude", start_lon |-> "start_longitude",
                     end_lat |-> "end_latitude", end_lon |-> "end_longitude",
                     mode |-> "mode", include_geometry |-> "include_geometry"]))

RouteFallback(request) ==
  [start_location |-> StartPoint(request), end_location |-> EndPoint(request),
   mode |-> OrStr(request, "mode", "car")]

\* the client operation behind each tool
ToolOp(name) ==
  CASE name = "camino_query" -> "executeQuery"
    [] name = "camino_search" -> "executeSearch"
    [] name = "camino_spatial_relationship" -> "calculateSpatialRelationship"
    [] name = "camino_place_context" -> "getPlaceContext"
    [] name = "camino_journey_planning" -> "planJourney"
    [] name = "camino_route_planning" -> "planRoute"

\* whether the try block reaches its this.client call: planJourney reads
\* request.waypoints.map first, a TypeError when waypoints is undefined
Issues(op, request) == op = "planJourney" => Has(request, "waypoints")

\* the HTTP request the try block issues
ApiCall(cfg, op, request) ==
  CASE op = "executeQuery" -> QueryCall(cfg, request)
    [] op = "executeSearch" -> SearchCall(cfg, request)
    [] op = "calculateSpatialRelationship" -> RelationshipCall(cfg, request)
    [] op = "getPlaceContext" -> ContextCall(cfg, request)
    [] op = "planJourney" -> JourneyCall(cfg, request)
    [] op = "planRoute" -> RouteCall(cfg, request)

ApiFallback(op, request) ==
  CASE op = "executeQuery" -> QueryFallback(request)
    [] op = "executeSearch" -> SearchFallback(request)
    [] op = "calculateSpatialRelationship" -> RelationshipFallback(request)
    [] op = "getPlaceContext" -> ContextFallback(request)
    [] op = "planJourney" -> JourneyFallback(request)
    [] op = "planRoute" -> RouteFallback(request)

\* the operations whose catch block starts with console.error(...)
ConsoleOps == {"executeQuery", "executeSearch", "calculateSpatialRelationship"}

ConsoleLabel(op) ==
  CASE op = "executeQuery" -> "Query execution failed:"
    [] op = "executeSearch" -> "Search execution failed:"
    [] op = "calculateSpatialRelationship" -> "Spatial relationship calculation failed:"

\* the catch block: what it writes to the console, and how it ends
ApiCatchStderr(op, error) ==
  IF op \in ConsoleOps
  THEN << ConsoleError(<<ConsoleLabel(op), " ">> \o error.message) >>
  ELSE <<>>

ApiCatch(op, request, error) ==
  IF op \in ConsoleOps
  THEN Return(FailureEnvelope(error, ApiFallback(op, request)))
  ELSE ApiLoggerError(FailureEnvelope(error, ApiFallback(op, request)))

\* how the operation ends once the awaited call has settled; settled is
\* [ok |-> TRUE, response |-> r] or [ok |-> FALSE, error |-> e]
ApiComplete(op, request, settled) ==
  IF settled.ok
  THEN Return(SuccessEnvelope(settled.response))
  ELSE ApiCatch(op, request, settled.error)

(* ------------------------------------------------------------------ *)
(* What the host receives                                              *)
(* ------------------------------------------------------------------ *)

\* JSON.stringify(result, null, 2): the text whose JSON value is v
JsonText(v) == [json |-> v]

\* a text that is a plain message
PlainText(parts) == [plain |-> parts]

\* { content: [{ type: 'text', text }] }
ContentResult(text) == [content |-> <<[type |-> "text", text |-> text]>>]

\* a protocol-level error: the invocation itself fails
ProtocolError(code, message) == [error |-> [code |-> code, message |-> message]]

\* the envelope handed on whole, also on success
Unwrap_KeepsEnvelope(response) == response

\* response.success ? response.data : response
Unwrap(response) == IF response.success THEN response.data ELSE response

(* ------------------------------------------------------------------ *)
(* Stdio-bound dispatcher: CaminoMCPServer                              *)
(* ------------------------------------------------------------------ *)

\* rank and generate_answer taken as given only when they are true
executeQueryToolRequest_StrictTrue(args) ==
  Pick(args, {"query", "latitude", "longitude"})
  @@ [radius |-> OrNum(args, "radius", 1000),
      rank |-> (Has(args, "rank") /\ args.rank = TRUE),
      limit |-> OrNum(args, "limit", 20),
      generate_answer |-> (Has(args, "generate_answer") /\ args.generate_answer = TRUE)]

executeQueryToolRequest(args) ==
  Pick(args, {"query", "latitude", "longitude"})
  @@ [radius |-> OrNum(args, "radius", 1000),
      rank |-> NotFalse(args, "rank"),
      limit |-> OrNum(args, "limit", 20),
      generate_answer |-> NotFalse(args, "generate_answer")]

executeSearchToolRequest(args) == Pick(args, {"query"})

executeSpatialRelationshipToolRequest(args) ==
  Pick(args, {"start_latitude", "start_longitude", "end_latitude", "end_longitude"})
  @@ [include |-> OrArr(args, "include", AllInclude)]

executePlaceContextToolRequest(args) ==
  Pick(args, {"latitude", "longitude", "context"})
  @@ [radius |-> OrStr(args, "radius", "500m")]

executeJourneyPlanningToolRequest(args) ==
  Pick(args, {"waypoints", "time_budget"})
  @@ [transport_mode |-> OrStr(args, "transport_mode", "walking")]

executeRoutePlanningToolRequest(args) ==
  Pick(args, {"start_latitude", "start_longitude", "end_latitude", "end_longitude"})
  @@ [mode |-> OrStr(args, "mode", "car"),
      include_geometry |-> OrBool(args, "include_geometry", FALSE)]

\* the typed request each execute*Tool builds from the raw arguments
StdioRequest(name, args) ==
  CASE name = "camino_query" -> executeQueryToolRequest(args)
    [] name = "camino_search" -> executeSearchToolRequest(args)
    [] name = "camino_spatial_relationship" -> executeSpatialRelationshipToolRequest(args)
    [] name = "camino_place_context" -> executePlaceContextToolRequest(args)
    [] name = "camino_journey_planning" -> executeJourneyPlanningToolRequest(args)
    [] name = "camino_route_planning" -> executeRoutePlanningToolRequest(args)

\* executeTool: the switch on the name (strict equality), default: throw
StdioKnows(name) == name \in ToolNames

UnknownToolError(name) == [name |-> "Error", message |-> <<"Unknown tool: ", name>>]

\* ---- getTools: each descriptor with the properties of its inputSchema
\* and its required list
QueryTool ==
  [name |-> "camino_query",
   properties |-> {"query", "latitude", "longitude", "radius", "limit", "rank", "generate_answer"},
   required |-> <<"query">>]

SearchTool ==
  [name |-> "camino_search", properties |-> {"query"}, required |-> <<"query">>]

SpatialRelationshipTool ==
  [name |-> "camino_spatial_relationship",
   properties |-> {"start_latitude", "start_longitude", "end_latitude", "end_longitude", "include"},
   required |-> <<"start_latitude", "start_longitude", "end_latitude", "end_longitude">>]

PlaceContextTool ==
  [name |-> "camino_place_context",
   properties |-> {"latitude", "longitude", "radius", "context"},
   required |-> <<"latitude", "longitude">>]

\* a descriptor that requires nothing
JourneyPlanningTool_NothingRequired ==
  [name |-> "camino_journey_planning",
   properties |-> {"waypoints", "transport_mode", "time_budget"},
   required |-> <<>>]

JourneyPlanningTool ==
  [name |-> "camino_journey_planning",
   properties |-> {"waypoints", "transport_mode", "time_budget"},
   required |-> <<"waypoints">>]

RoutePlanningTool ==
  [name |-> "camino_route_planning",
   properties |-> {"start_latitude", "start_longitude", "end_latitude", "end_longitude",
                   "mode", "include_geometry"},
   required |-> <<"start_latitude", "start_longitude", "end_latitude", "end_longitude">>]

getTools ==
  << QueryTool, SearchTool, SpatialRelationshipTool, PlaceContextTool,
     JourneyPlanningTool, RoutePlanningTool >>

\* the ListToolsRequestSchema handler
StdioListTools == [tools |-> getTools]

\* a handler whose error message leaves the cause out
StdioReply_NoCause(done) ==
  IF done.threw
  THEN ProtocolError("InternalError", <<"Tool execution failed">>)
  ELSE ContentResult(JsonText(done.value))

\* a handler that answers a thrown error with a failure envelope
StdioReply_ErrorAsEnvelope(done) ==
  IF done.threw
  THEN ContentResult(JsonText([success |-> FALSE, error |-> done.error.message, data |-> <<>>]))
  ELSE ContentResult(JsonText(done.value))

\* the CallToolRequestSchema handler around executeTool: done is how
\* executeTool ended
StdioReply(done) ==
  IF done.threw
  THEN ProtocolError("InternalError", <<"Tool execution failed: ">> \o done.error.message)
  ELSE ContentResult(JsonText(done.value))

(* ------------------------------------------------------------------ *)
(* Session-factory server: createStatelessServer                       *)
(* ------------------------------------------------------------------ *)

\* zod .default(d): d when the input is undefined
Default(o, f, d) == IF Has(o, f) THEN o[f] ELSE d

\* zod .min(lo).max(hi) on an optional number
InRange(o, f, lo, hi) == Has(o, f) => (lo <= o[f] /\ o[f] <= hi)

\* zod z.enum(S) on an optional string
InEnum(o, f, S) == Has(o, f) => o[f] \in S

Required(o, fs) == fs \subseteq DOMAIN o

WaypointFields == {"lat", "lon", "purpose"}

\* whether the arguments pass the zod shape registered for the tool
\* (argument values are of the declared JSON types)
ZodAccepts(name, args) ==
  CASE name = "camino_query" ->
         /\ Required(args, {"query"})
         /\ InRange(args, "radius", 100, 50000)
         /\ InRange(args, "limit", 1, 100)
    [] name = "camino_search" -> Required(args, {"query"})
    [] name = "camino_spatial_relationship" ->
         /\ Required(args, {"start_latitude", "start_longitude", "end_latitude", "end_longitude"})
         /\ (Has(args, "include") =>
              \A i \in 1..Len(args.include) :
                args.include[i] \in {"distance", "direction", "travel_time", "description"})
    [] name = "camino_place_context" -> Required(args, {"latitude", "longitude"})
    [] name = "camino_journey_planning" ->
         /\ Required(args, {"waypoints"})
         /\ Len(args.waypoints) >= 2
         /\ \A i \in 1..Len(args.waypoints) : Required(args.waypoints[i], WaypointFields)
         /\ InEnum(args, "transport_mode", {"walking", "driving", "cycling"})
    [] name = "camino_route_planning" ->
         /\ Required(args, {"start_latitude", "start_longitude", "end_latitude", "end_longitude"})
         /\ InEnum(args, "mode", {"car", "bike", "foot"})

\* the parsed arguments: unknown keys stripped, defaults filled in
ZodParse(name, args) ==
  CASE name = "camino_query" ->
         Pick(args, {"query", "latitude", "longitude"})
         @@ [radius |-> Default(args, "radius", 1000),
             limit |-> Default(args, "limit", 20),
             rank |-> Default(args, "rank", TRUE),
             generate_answer |-> Default(args, "generate_answer", TRUE)]
    [] name = "camino_search" -> Pick(args, {"query"})
    [] name = "camino_spatial_relationship" ->
         Pick(args, {"start_latitude", "start_longitude", "end_latitude", "end_longitude"})
         @@ [include |-> Default(args, "include", AllInclude)]
    [] name = "camino_place_context" ->
         Pick(args, {"latitude", "longitude", "context"})
         @@ [radius |-> Default(args, "radius", "500m")]
    [] name = "camino_journey_planning" ->
         [waypoints |-> [i \in 1..Len(args.waypoints) |-> Pick(args.waypoints[i], WaypointFields)],
          transport_mode |-> Default(args, "transport_mode", "walking")]
         @@ Pick(args, {"time_budget"})
    [] name = "camino_route_planning" ->
         Pick(args, {"start_latitude", "start_longitude", "end_latitude", "end_longitude"})
         @@ [mode |-> Default(args, "mode", "car"),
             include_geometry |-> Default(args, "include_geometry", FALSE)]

\* the typed request each tool callback builds from its parsed arguments
SessionRequest(name, parsed) ==
  CASE name = "camino_query" ->
         Pick(parsed, {"query", "latitude", "longitude", "radius", "rank", "limit", "generate_answer"})
    [] name = "camino_search" -> Pick(parsed, {"query"})
    [] name = "camino_spatial_relationship" ->
         Pick(parsed, {"start_latitude", "start_longitude", "end_latitude", "end_longitude", "include"})
    [] name = "camino_place_context" -> Pick(parsed, {"latitude", "longitude", "radius", "context"})
    [] name = "camino_journey_planning" -> Pick(parsed, {"waypoints", "transport_mode", "time_budget"})
    [] name = "camino_route_planning" ->
         Pick(parsed, {"start_latitude", "start_longitude", "end_latitude", "end_longitude",
                       "mode", "include_geometry"})

\* the names registered with server.tool(...)
SessionKnows(name) == name \in ToolNames

\* the keys of each registered shape, in registration order, and of these
\* the ones declared without .optional() and without .default(): the
\* McpServer lists them as the required properties of the tool
SessionShapes ==
  << [name |-> "camino_query",
      properties |-> {"query", "latitude", "longitude", "radius", "limit", "rank", "generate_answer"},
      required |-> <<"query">>],
     [name |-> "camino_search", properties |-> {"query"}, required |-> <<"query">>],
     [name |-> "camino_spatial_relationship",
      properties |-> {"start_latitude", "start_longitude", "end_latitude", "end_longitude", "include"},
      required |-> <<"start_latitude", "start_longitude", "end_latitude", "end_longitude">>],
     [name |-> "camino_place_context",
      properties |-> {"latitude", "longitude", "radius", "context"},
      required |-> <<"latitude", "longitude">>],
     [name |-> "camino_journey_planning",
      properties |-> {"waypoints", "transport_mode", "time_budget"},
      required |-> <<"waypoints">>],
     [name |-> "camino_route_planning",
      properties |-> {"start_latitude", "start_longitude", "end_latitude", "end_longitude",
                      "mode", "include_geometry"},
      required |-> <<"start_latitude", "start_longitude", "end_latitude", "end_longitude">>] >>

\* what the McpServer answers to tools/list
SessionListTools == [tools |-> SessionShapes]

\* what the McpServer answers for a tool callback that ended as done
SessionReply(done) ==
  IF done.threw
  THEN ContentResult(PlainText(done.error.message)) @@ [isError |-> TRUE]
  ELSE ContentResult(JsonText(done.value))

(* ------------------------------------------------------------------ *)
(* The host and the upstream service                                   *)
(* ------------------------------------------------------------------ *)

Variants == {"stdio", "session"}

\* a key of 8 characters and a longer one
ApiKeys == {"key-AAAA", "key-BBBB-9f3c"}

\* the characters of each key of the model
Chars(key) ==
  CASE key = "key-AAAA" -> <<"k", "e", "y", "-", "A", "A", "A", "A">>
    [] key = "key-BBBB-9f3c" ->
         <<"k", "e", "y", "-", "B", "B", "B", "B", "-", "9", "f", "3", "c">>
    [] key = "" -> <<>>

\* the environments the process is started in: production (no debug
\* variable), debugging with API_TIMEOUT set, and two without a usable key
ProductionEnv == [CAMINO_API_KEY |-> "key-AAAA", NODE_ENV |-> "production"]

DebugEnv ==
  [CAMINO_API_KEY |-> "key-BBBB-9f3c", MCP_DEBUG |-> "true", DEBUG |-> "true", API_TIMEOUT |-> 5000]

Environments ==
  { ProductionEnv, DebugEnv,
    [CAMINO_API_KEY |-> "", MCP_DEBUG |-> "true", DEBUG |-> "true"],
    [NODE_ENV |-> "production"] }

\* the processes the model starts: either entrypoint in each environment
\* with a log file that can be appended to, and index.ts in debug mode in
\* a working directory where it cannot
Processes ==
  {[entry |-> v, env |-> e, writable |-> TRUE] : v \in Variants, e \in Environments}
  \cup {[entry |-> "stdio", env |-> DebugEnv, writable |-> FALSE]}

Coords == [start_latitude |-> 40, start_longitude |-> -74, end_latitude |-> 41, end_longitude |-> -73]

Here == [latitude |-> 40, longitude |-> -74]

\* waypoints as the stdio descriptor documents them, and as planJourney reads them
DocWaypoint(n, p) == [latitude |-> 40 + n, longitude |-> -74 + n, purpose |-> p]
WireWaypoint(n, p) == [lat |-> 40 + n, lon |-> -74 + n, purpose |-> p]

\* the tools/call requests the host sends: name and raw arguments
HostCalls ==
  { [name |-> "camino_query", args |-> [query |-> "coffee shops"]],
    [name |-> "camino_query",
     args |-> [query |-> "coffee shops", latitude |-> 40, longitude |-> -74, radius |-> 2000,
               limit |-> 10, rank |-> FALSE, generate_answer |-> FALSE]],
    [name |-> "camino_search", args |-> [query |-> "Eiffel Tower"]],
    [name |-> "camino_spatial_relationship", args |-> Coords],
    [name |-> "camino_spatial_relationship", args |-> Coords @@ [include |-> <<"distance">>]],
    [name |-> "camino_place_context", args |-> Here],
    [name |-> "camino_place_context",
     args |-> Here @@ [radius |-> "1km", context |-> "family outing"]],
    [name |-> "camino_journey_planning",
     args |-> [waypoints |-> <<DocWaypoint(0, "coffee"), DocWaypoint(1, "lunch")>>]],
    [name |-> "camino_journey_planning",
     args |-> [waypoints |-> <<WireWaypoint(0, "coffee"), WireWaypoint(1, "lunch")>>,
               transport_mode |-> "driving", time_budget |-> "2 hours"]],
    [name |-> "camino_journey_planning", args |-> [waypoints |-> <<DocWaypoint(0, "coffee")>>]],
    [name |-> "camino_journey_planning", args |-> [transport_mode |-> "walking"]],
    [name |-> "camino_route_planning", args |-> Coords],
    [name |-> "camino_route_planning",
     args |-> Coords @@ [mode |-> "bike", include_geometry |-> TRUE]],
    [name |-> "camino_Query", args |-> [query |-> "coffee shops"]],
    [name |-> "camino_route", args |-> Coords] }

\* tools/call requests whose optional arguments are supplied with the
\* values of their declared type that JavaScript takes as false
ExplicitCalls ==
  { [name |-> "camino_query",
     args |-> [query |-> "coffee shops", rank |-> FALSE, generate_answer |-> FALSE]],
    [name |-> "camino_spatial_relationship", args |-> Coords @@ [include |-> <<>>]],
    [name |-> "camino_place_context", args |-> Here @@ [radius |-> "", context |-> ""]],
    [name |-> "camino_journey_planning",
     args |-> [waypoints |-> <<DocWaypoint(0, "coffee"), DocWaypoint(1, "lunch")>>,
               time_budget |-> ""]],
    [name |-> "camino_route_planning", args |-> Coords @@ [include_geometry |-> FALSE]] }

\* 2xx responses: the payload is whatever JSON the upstream sends, also
\* one that looks like an envelope of this layer
Payloads ==
  { [results |-> <<"Blue Bottle">>, total_found |-> 1],
    [success |-> FALSE, error |-> <<"quota exceeded">>] }

Responses == {[status |-> 200, data |-> p] : p \in Payloads}

\* rejections of the awaited call by a non-2xx response: with a detail,
\* with a detail that is the empty string, without a detail (the
\* rejection without any response is TimeoutError)
Failures ==
  { [message |-> <<"Request failed with status code 500">>,
     response |-> [status |-> 500, data |-> [detail |-> <<"Invalid coordinates">>]]],
    [message |-> <<"Request failed with status code 400">>,
     response |-> [status |-> 400, data |-> [detail |-> <<>>]]],
    [message |-> <<"Request failed with status code 404">>,
     response |-> [status |-> 404, data |-> <<>>]] }

\* the rejection axios produces when its timeout expires
TimeoutError == [message |-> <<"timeout of 30000ms exceeded">>, code |-> "ECONNABORTED"]

(* ------------------------------------------------------------------ *)
(* One invocation                                                      *)
(* ------------------------------------------------------------------ *)

Reply(variant, done) == IF variant = "stdio" THEN StdioReply(done) ELSE SessionReply(done)

\* an invocation answered before any handler runs
Rejected(call, result) ==
  [name |-> call.name, args |-> call.args, st |-> "done",
   calls |-> <<>>, console |-> <<>>, result |-> result]

\* the invocation suspended at its await of this.client.get/post
Awaiting(srv, call, request) ==
  [name |-> call.name, args |-> call.args, st |-> "pending", request |-> request,
   calls |-> <<ApiCall(srv.api, ToolOp(call.name), request)>>, console |-> <<>>]

\* the continuation once the awaited call (or the try block) has settled:
\* client operation, execute*Tool's unwrapping, then the server's reply;
\* the record keeps how the awaited call settled and how the client
\* operation ended
Finish(srv, rec, settled) ==
  LET op == ToolOp(rec.name)
      api == ApiComplete(op, rec.request, settled)
      done == IF api.threw THEN api ELSE Return(Unwrap(api.value))
  IN  [st |-> "done", settled |-> settled, api |-> api, result |-> Reply(srv.variant, done),
       console |-> rec.console \o (IF settled.ok THEN <<>> ELSE ApiCatchStderr(op, settled.error))]
      @@ rec

\* the handler of the stdio server up to its first suspension
StdioStart(srv, call) ==
  IF ~StdioKnows(call.name)
  THEN Rejected(call, StdioReply(Throw(UnknownToolError(call.name))))
  ELSE LET request == StdioRequest(call.name, call.args)
       IN  IF Issues(ToolOp(call.name), request)
           THEN Awaiting(srv, call, request)
           ELSE Finish(srv,
                  [name |-> call.name, args |-> call.args, st |-> "pending",
                   request |-> request, calls |-> <<>>, console |-> <<>>],
                  [ok |-> FALSE, error |-> TypeErrorMap])

\* the McpServer of the session factory up to the callback's first suspension
SessionStart(srv, call) ==
  IF ~SessionKnows(call.name)
  THEN Rejected(call, ProtocolError("InvalidParams", <<"Tool ", call.name, " not found">>))
  ELSE IF ~ZodAccepts(call.name, call.args)
  THEN Rejected(call, ProtocolError("InvalidParams", <<"Invalid arguments for tool ", call.name>>))
  ELSE Awaiting(srv, call, SessionRequest(call.name, ZodParse(call.name, call.args)))

\* a log line with the tool name only
executeToolLog_NameOnly(lg, call) ==
  LoggerDebug(lg, "Executing tool", <<[name |-> call.name]>>)

\* executeTool's first statement: Logger.debug('Executing tool', { name, args })
executeToolLog(lg, call) ==
  LoggerDebug(lg, "Executing tool", <<[name |-> call.name, args |-> call.args]>>)

\* n events of one kind
Events(kind, n) == [i \in 1..n |-> kind]

\* a tools/call request up to its first suspension; log: the lines it
\* appended to the log file; trace: the order in which it logged, entered
\* a tool handler and issued its upstream call
Start(lg, srv, call) ==
  LET logged == IF srv.variant = "stdio" THEN executeToolLog(lg, call) ELSE <<>>
      rec == IF srv.variant = "stdio" THEN StdioStart(srv, call) ELSE SessionStart(srv, call)
  IN  [log |-> logged,
       trace |-> Events("log", Len(logged))
                 \o Events("dispatch", IF Has(rec, "request") THEN 1 ELSE 0)
                 \o Events("call", Len(rec.calls))]
      @@ rec

(* ------------------------------------------------------------------ *)
(* Entrypoints: main() of index.ts and of docker-entry.ts              *)
(* ------------------------------------------------------------------ *)

\* a test for undefined only: the empty string passes
KeyPresent_DefinedOnly(env) == Has(env, "CAMINO_API_KEY")

\* !apiKey is false
KeyPresent(env) == Has(env, "CAMINO_API_KEY") /\ env.CAMINO_API_KEY # ""

\* process.env.CAMINO_API_BASE_URL || 'https://api.getcamino.ai'
BaseUrlOf(env) == OrStr(env, "CAMINO_API_BASE_URL", "https://api.getcamino.ai")

\* apiKey.substring(0, 8)
KeyPrefix(key) == SubSeq(Chars(key), 1, IF Len(Chars(key)) < 8 THEN Len(Chars(key)) ELSE 8)

NoServer == [variant |-> "none"]

\* process.exit(code) after the console writes out
Exit(p, code, out) ==
  [proc |-> [phase |-> "exited", exitCode |-> code, console |-> p.console \o out] @@ p,
   server |-> NoServer]

\* main() of index.ts, with CaminoMCPServer's constructor and run()
IndexMain(p) ==
  IF ~KeyPresent(p.env)
  THEN Exit(p, 1,
         << StderrWrite(<<"CAMINO_API_KEY environment variable is required\n">>),
            StderrWrite(<<"Set it in your .env file or environment: CAMINO_API_KEY=your_api_key_here\n">>) >>)
  ELSE [proc |-> [phase |-> "running", bound |-> TRUE,
                  log |-> p.log
                          \o LoggerInfo(LoggerOf(p), "Starting Camino MCP Server",
                                <<[apiBaseUrl |-> BaseUrlOf(p.env),
                                   apiKeyPrefix |-> KeyPrefix(p.env.CAMINO_API_KEY)]>>)
                          \o LoggerInfo(LoggerOf(p), "Camino MCP Server started", <<>>)]
                 @@ p,
        server |-> [variant |-> "stdio",
                    api |-> [baseUrl |-> BaseUrlOf(p.env), apiKey |-> p.env.CAMINO_API_KEY]]]

\* main() of docker-entry.ts, with createStatelessServer
DockerMain(p) ==
  IF ~KeyPresent(p.env)
  THEN Exit(p, 1, <<ConsoleError(<<"CAMINO_API_KEY environment variable is required">>)>>)
  ELSE [proc |-> [phase |-> "running", bound |-> TRUE,
                  console |-> p.console
                              \o (IF Has(p.env, "DEBUG") /\ p.env.DEBUG = "true"
                                  THEN <<ConsoleError(<<"Camino MCP Server running in Docker">>)>>
                                  ELSE <<>>)]
                 @@ p,
        server |-> [variant |-> "session",
                    api |-> [baseUrl |-> BaseUrlOf(p.env), apiKey |-> p.env.CAMINO_API_KEY]]]

(* ------------------------------------------------------------------ *)
(* State machine                                                       *)
(* ------------------------------------------------------------------ *)

Pending == {r \in BagToSet(inflight) : r.st = "pending"}
Done == {r \in BagToSet(inflight) : r.st = "done"}

\* one slot for the request being served: the new record takes the place
\* of whatever is in flight
Replace_SingleSlot(old, new) == SetToBag({new})

Replace(old, new) == (inflight (-) SetToBag({old})) (+) SetToBag({new})

\* the process has been spawned and main() has not run yet
Init ==
  /\ proc \in {[phase |-> "boot", bound |-> FALSE, console |-> <<>>, log |-> <<>>] @@ p :
                  p \in Processes}
  /\ server = NoServer
  /\ inflight = EmptyBag

\* main() runs: it exits, or it constructs the server and binds the transport
Main ==
  /\ proc.phase = "boot"
  /\ LET out == IF proc.entry = "stdio" THEN IndexMain(proc) ELSE DockerMain(proc)
     IN  proc' = out.proc /\ server' = out.server
  /\ UNCHANGED inflight

\* the host sends tools/call
Invoke(call) ==
  /\ proc.phase = "running"
  /\ BagCardinality(inflight) < MaxInFlight
  /\ inflight' = inflight (+) SetToBag({Start(LoggerOf(proc), server, call)})
  /\ UNCHANGED <<proc, server>>

\* the host sends tools/list: it is answered without suspending
ListTools ==
  /\ proc.phase = "running"
  /\ BagCardinality(inflight) < MaxInFlight
  /\ inflight' = inflight (+) SetToBag({[method |-> "tools/list", st |-> "done",
                                          result |-> IF server.variant = "stdio"
                                                     THEN StdioListTools
                                                     ELSE SessionListTools]})
  /\ UNCHANGED <<proc, server>>

\* the upstream answers 2xx
UpstreamResponds(rec, response) ==
  /\ inflight' = Replace(rec, Finish(server, rec, [ok |-> TRUE, response |-> response]))
  /\ UNCHANGED <<proc, server>>

\* the upstream call fails: no connection, or a non-2xx status
UpstreamFails(rec, error) ==
  /\ inflight' = Replace(rec, Finish(server, rec, [ok |-> FALSE, error |-> error]))
  /\ UNCHANGED <<proc, server>>

\* the upstream stays silent and the client's timeout expires
UpstreamTimeout(rec) ==
  /\ inflight' = Replace(rec, Finish(server, rec, [ok |-> FALSE, error |-> TimeoutError]))
  /\ UNCHANGED <<proc, server>>

\* the host transport hands the answer back to the caller
Deliver(rec) ==
  /\ inflight' = inflight (-) SetToBag({rec})
  /\ UNCHANGED <<proc, server>>

Next ==
  \/ Main
  \/ \E call \in HostCalls : Invoke(call)
  \/ ListTools
  \/ \E rec \in Pending, response \in Responses : UpstreamResponds(rec, response)
  \/ \E rec \in Pending, error \in Failures : UpstreamFails(rec, error)
  \/ \E rec \in Pending : UpstreamTimeout(rec)
  \/ \E rec \in Done : Deliver(rec)

Spec == Init /\ [][Next]_vars

\* the same system with a host that sends the requests of ExplicitCalls
NextExplicit ==
  \/ Main
  \/ \E call \in ExplicitCalls : Invoke(call)
  \/ ListTools
  \/ \E rec \in Pending, response \in Responses : UpstreamResponds(rec, response)
  \/ \E rec \in Pending, error \in Failures : UpstreamFails(rec, error)
  \/ \E rec \in Pending : UpstreamTimeout(rec)
  \/ \E rec \in Done : Deliver(rec)

SpecExplicit == Init /\ [][NextExplicit]_vars

(* ------------------------------------------------------------------ *)
(* Properties                                                          *)
(* ------------------------------------------------------------------ *)

\* the tools/call requests in flight, and the tools/list requests
Records == {r \in BagToSet(inflight) : Has(r, "name")}
Listings == {r \in BagToSet(inflight) : Has(r, "method")}

\* the invocation's upstream call was issued and failed
UpstreamFailed(r) == r.st = "done" /\ Has(r, "settled") /\ ~r.settled.ok /\ Len(r.calls) = 1

\* the invocation's upstream call was issued and answered 2xx
UpstreamSucceeded(r) == r.st = "done" /\ Has(r, "settled") /\ r.settled.ok

\* the invocation completed normally with a JSON text block
IsJsonContent(r) ==
  /\ Has(r.result, "content")
  /\ ~Has(r.result, "isError")
  /\ Has(r.result.content[1].text, "json")

\* the JSON value the host reads from the text block
HostJson(r) == r.result.content[1].text.json

\* the fallback payload section 6/7 of the specification documents, from
\* the caller's own arguments
DocumentedFallback(name, args) ==
  CASE name = "camino_query" ->
         [query |-> args.query, results |-> <<>>, total_found |-> 0, ai_ranked |-> FALSE]
    [] name = "camino_search" ->
         [query |-> args.query, results |-> <<>>, total_found |-> 0, source |-> "nominatim"]
    [] name = "camino_spatial_relationship" ->
         [start_location |-> [lat |-> args.start_latitude, lon |-> args.start_longitude],
          end_location |-> [lat |-> args.end_latitude, lon |-> args.end_longitude]]
    [] name = "camino_place_context" ->
         [location |-> [lat |-> args.latitude, lon |-> args.longitude],
          relevant_places |-> <<>>, total_places_found |-> 0]
    [] name = "camino_journey_planning" ->
         [waypoints |-> args.waypoints, feasible |-> FALSE]
    [] name = "camino_route_planning" ->
         [start_location |-> [lat |-> args.start_latitude, lon |-> args.start_longitude],
          end_location |-> [lat |-> args.end_latitude, lon |-> args.end_longitude],
          mode |-> IF Has(args, "mode") THEN args.mode ELSE "car"]

\* C1: whenever the upstream call of an invocation fails, the invocation
\* completes normally and its result is an envelope with success=false, a
\* non-empty error and the tool's fallback payload echoing the caller's inputs.
C1_FailureYieldsFallbackEnvelope ==
  \A r \in Records :
    UpstreamFailed(r) =>
      /\ IsJsonContent(r)
      /\ HostJson(r).success = FALSE
      /\ HostJson(r).error # <<>>
      /\ HostJson(r).data = DocumentedFallback(r.name, r.args)

\* C2: no client operation ever raises: when its upstream call fails, the
\* operation, catch block included, returns an envelope
\* {success:false, error, data}.
C2_ClientNeverRaises ==
  \A r \in Records :
    UpstreamFailed(r) =>
      /\ ~r.api.threw
      /\ r.api.value.success = FALSE
      /\ Has(r.api.value, "error")
      /\ Has(r.api.value, "data")

\* C3: if the upstream call succeeds, the result returned to the host is
\* the upstream payload exactly, with nothing of the envelope around it.
C3_SuccessReturnsPayload ==
  \A r \in Records :
    UpstreamSucceeded(r) =>
      /\ IsJsonContent(r)
      /\ HostJson(r) = r.settled.response.data

\* a 2xx payload that itself carries a success field has been returned
C3_Witness ==
  \E r \in Records :
    /\ UpstreamSucceeded(r)
    /\ Has(r.settled.response.data, "success")
    /\ r.name = "camino_journey_planning"

\* the waypoints list is one the tool documents: at least two waypoints,
\* each {latitude, longitude, purpose}
DocumentedWaypoints(args) ==
  /\ Has(args, "waypoints")
  /\ Len(args.waypoints) >= 2
  /\ \A i \in 1..Len(args.waypoints) :
       DOMAIN args.waypoints[i] = {"latitude", "longitude", "purpose"}

\* C4: every waypoint supplied as {latitude, longitude, purpose} is
\* forwarded to POST /journey as {lat, lon, purpose} with the same values,
\* in the same order; no forwarded waypoint lacks lat or lon.
C4_WaypointsForwarded ==
  \A r \in Records :
    (r.name = "camino_journey_planning" /\ DocumentedWaypoints(r.args) /\ Len(r.calls) = 1) =>
      /\ Len(r.calls[1].body.waypoints) = Len(r.args.waypoints)
      /\ \A i \in 1..Len(r.args.waypoints) :
           r.calls[1].body.waypoints[i] =
             [lat |-> r.args.waypoints[i].latitude,
              lon |-> r.args.waypoints[i].longitude,
              purpose |-> r.args.waypoints[i].purpose]

\* the waypoints list has fewer than two elements
TooFewWaypoints(args) == Has(args, "waypoints") /\ Len(args.waypoints) < 2

\* C5: a camino_journey_planning invocation with fewer than two waypoints
\* is rejected before its handler runs and issues no upstream call.
C5_TooFewWaypointsRejected ==
  \A r \in Records :
    (r.name = "camino_journey_planning" /\ TooFewWaypoints(r.args)) =>
      /\ r.st = "done"
      /\ Has(r.result, "error")
      /\ ~Has(r, "request")
      /\ r.calls = <<>>

\* C6: a tool name that is not exactly one of the six registered names
\* fails the invocation with an unknown-tool error (the dispatcher's
\* internal error embedding "Unknown tool: <name>"); no handler runs, no
\* fallback payload is returned and no upstream call is issued.
C6_UnknownToolFails ==
  \A r \in Records :
    r.name \notin ToolNames =>
      /\ r.st = "done"
      /\ Has(r.result, "error")
      /\ ~Has(r.result, "content")
      /\ (server.variant = "stdio" =>
            r.result.error =
              [code |-> "InternalError",
               message |-> <<"Tool execution failed: ", "Unknown tool: ", r.name>>])
      /\ ~Has(r, "request")
      /\ r.calls = <<>>

\* a name differing from a registered one only in case has been refused
C6_Witness ==
  \E r \in Records : r.name = "camino_Query" /\ r.st = "done" /\ server.variant = "stdio"

\* the call the invocation issued
TheCall(r) == r.calls[1]

\* the wire object carries field f with value v
Sends(wire, f, v) == Has(wire, f) /\ wire[f] = v

\* C7: every optional field the caller omits takes its documented default
\* in the upstream call; fields without a default are sent as absent.
C7_DefaultsApplied ==
  \A r \in Records :
    Len(r.calls) = 1 =>
      LET a == r.args
          c == TheCall(r)
      IN  /\ r.name = "camino_query" =>
               /\ ~Has(a, "radius") => Sends(c.params, "radius", 1000)
               /\ ~Has(a, "limit") => Sends(c.params, "limit", 20)
               /\ ~Has(a, "rank") => Sends(c.params, "rank", TRUE)
               /\ ~Has(a, "generate_answer") => Sends(c.params, "answer", TRUE)
               /\ ~Has(a, "latitude") => ~Has(c.params, "lat")
               /\ ~Has(a, "longitude") => ~Has(c.params, "lon")
          /\ r.name = "camino_spatial_relationship" =>
               (~Has(a, "include") =>
                  Sends(c.body, "include",
                        <<"distance", "direction", "travel_time", "description">>))
          /\ r.name = "camino_place_context" =>
               /\ ~Has(a, "radius") => Sends(c.body, "radius", "500m")
               /\ ~Has(a, "context") => ~Has(c.body, "context")
          /\ r.name = "camino_journey_planning" =>
               /\ ~Has(a, "transport_mode") => Sends(c.body.constraints, "transport", "walking")
               /\ ~Has(a, "time_budget") => ~Has(c.body.constraints, "time_budget")
          /\ r.name = "camino_route_planning" =>
               /\ ~Has(a, "mode") => Sends(c.params, "mode", "car")
               /\ ~Has(a, "include_geometry") => Sends(c.params, "include_geometry", FALSE)

\* camino_query has been invoked with only its query
C7_Witness ==
  \E r \in Records :
    r.name = "camino_query" /\ DOMAIN r.args = {"query"} /\ Len(r.calls) = 1

\* the wire object carries exactly the request's fields, renamed as the
\* table says: table is a set of <<wire name, request field>>
Renamed(wire, request, table) ==
  /\ DOMAIN wire \subseteq {p[1] : p \in table}
  /\ \A p \in table :
       /\ Has(wire, p[1]) <=> Has(request, p[2])
       /\ Has(request, p[2]) => wire[p[1]] = request[p[2]]

KeyFree(c) == [f \in DOMAIN c \ {"headers"} |-> c[f]]

\* C9: every upstream call carries the API key in the X-API-Key header,
\* and everything else of the call is the same whichever key the server
\* is configured with.
C9_KeyOnlyInHeader ==
  \A r \in Records :
    \A i \in 1..Len(r.calls) :
      /\ r.calls[i].headers.XAPIKey = server.api.apiKey
      /\ DOMAIN r.calls[i].headers = {"ContentType", "Accept", "XAPIKey"}
      /\ \A k \in ApiKeys :
           KeyFree(ApiCall([server.api EXCEPT !.apiKey = k], ToolOp(r.name), r.request))
             = KeyFree(r.calls[i])

\* a GET call and a POST call have been issued under the second key
C9_Witness ==
  /\ Has(server, "api") /\ server.api.apiKey = "key-BBBB-9f3c"
  /\ \E r \in Records : Len(r.calls) = 1 /\ TheCall(r).method = "GET"
  /\ \E r \in Records : Len(r.calls) = 1 /\ TheCall(r).method = "POST"

\* C10: an invocation makes at most one upstream attempt, and exactly one
\* when it reaches a handler.
C10_ExactlyOneAttempt ==
  \A r \in Records :
    /\ Len(r.calls) <= 1
    /\ Has(r, "request") => Len(r.calls) = 1

\* the set of the elements of a sequence
Range(seq) == {seq[i] : i \in 1..Len(seq)}

\* C11: whatever has been invoked before and whatever is in flight, the
\* answer to tools/list names exactly the six tools, in the order of their
\* registration, and the required fields of each are exactly the documented
\* set.
C11_ListToolsFixed ==
  \A l \in Listings :
    LET tools == l.result.tools
    IN  /\ [i \in 1..Len(tools) |-> tools[i].name]
             = << "camino_query", "camino_search", "camino_spatial_relationship",
                  "camino_place_context", "camino_journey_planning", "camino_route_planning" >>
        /\ [i \in 1..Len(tools) |-> Range(tools[i].required)]
             = << {"query"}, {"query"},
                  {"start_latitude", "start_longitude", "end_latitude", "end_longitude"},
                  {"latitude", "longitude"}, {"waypoints"},
                  {"start_latitude", "start_longitude", "end_latitude", "end_longitude"} >>
        /\ \A i \in 1..Len(tools) : Len(tools[i].required) = Cardinality(Range(tools[i].required))

\* the stdio server answers tools/list while an invocation whose upstream
\* call failed is waiting to be delivered
C11_Witness ==
  /\ server.variant = "stdio"
  /\ Listings # {}
  /\ \E r \in Records : UpstreamFailed(r)

\* the debug flag of the process: Logger.debugMode under index.ts, the
\* DEBUG variable under docker-entry.ts
DebugFlag ==
  IF proc.entry = "stdio"
  THEN DebugMode(proc.env)
  ELSE Has(proc.env, "DEBUG") /\ proc.env.DEBUG = "true"

\* everything logging and diagnostic code has written to the console:
\* at startup and by the requests in flight
ConsoleWrites ==
  {proc.console[i] : i \in 1..Len(proc.console)}
  \cup UNION {{r.console[i] : i \in 1..Len(r.console)} : r \in Records}

\* C12: with the debug flag disabled, nothing that startup or a tool
\* invocation logs goes to standard output, whether the upstream call
\* succeeded or failed.
C12_NoLogOnStdout ==
  ~DebugFlag => \A w \in ConsoleWrites : w.fd # "stdout"

\* production mode, the server is running, one invocation succeeded and
\* another failed with a diagnostic line written
C12_Witness ==
  /\ ~DebugFlag
  /\ proc.phase = "running"
  /\ \E r \in Records : UpstreamSucceeded(r)
  /\ \E r \in Records : UpstreamFailed(r) /\ r.console # <<>>

\* C13: with the debug flag unset, no tool invocation writes anything to
\* the error channel, not even one whose upstream call fails.
C13_NoStderrInProduction ==
  ~DebugFlag => \A r \in Records : \A i \in 1..Len(r.console) : r.console[i].fd # "stderr"

\* C14: every upstream call carries the timeout API_TIMEOUT names when the
\* variable is set, and 30000 ms when it is not.
C14_TimeoutFromEnvironment ==
  \A r \in Records :
    \A i \in 1..Len(r.calls) :
      r.calls[i].timeout = (IF Has(proc.env, "API_TIMEOUT")
                            THEN proc.env.API_TIMEOUT
                            ELSE DefaultTimeout)

\* C15: under either entrypoint, when CAMINO_API_KEY is absent or empty,
\* main() ends the process with exit code 1, and no server instance is
\* ever constructed, no transport bound and no request served.
C15_NoKeyExitsFirst ==
  (~Has(proc.env, "CAMINO_API_KEY") \/ proc.env.CAMINO_API_KEY = "") =>
    /\ server = NoServer
    /\ ~proc.bound
    /\ inflight = EmptyBag
    /\ proc.phase \in {"boot", "exited"}
    /\ proc.phase = "exited" => (proc.exitCode = 1 /\ proc.console # <<>>)

\* the docker entrypoint has exited on an empty key
C15_Witness ==
  /\ proc.entry = "session"
  /\ Has(proc.env, "CAMINO_API_KEY") /\ proc.env.CAMINO_API_KEY = ""
  /\ proc.phase = "exited"

\* the invocation's upstream call was issued and the client's timeout expired
TimedOut(r) == UpstreamFailed(r) /\ r.settled.error = TimeoutError

\* C16: an invocation whose upstream stays silent until the client's
\* timeout expires is answered, and its answer is the failure envelope
\* carrying the transport error and the tool's fallback payload.
C16_TimeoutYieldsFailureEnvelope ==
  \A r \in Records :
    TimedOut(r) =>
      /\ Has(r, "result")
      /\ IsJsonContent(r)
      /\ HostJson(r) = [success |-> FALSE, error |-> TimeoutError.message,
                        data |-> DocumentedFallback(r.name, r.args)]

\* the log line of an invocation: tool name and raw arguments
InvocationEntry(r) ==
  [level |-> "DEBUG", message |-> "Executing tool", data |-> [name |-> r.name, args |-> r.args]]

\* the invocation logged before it entered a handler or issued a call
LoggedFirst(r) ==
  \A i, j \in 1..Len(r.trace) :
    (r.trace[i] = "log" /\ r.trace[j] \in {"dispatch", "call"}) => i < j

Escaped(r) ==
  IF ~StdioKnows(r.name) THEN <<[message |-> <<"Unknown tool: ", r.name>>]>>
  ELSE IF Has(r, "api") /\ r.api.threw THEN <<[message |-> r.api.error.message]>>
  ELSE <<>>

\* C18: in the stdio dispatcher, an invocation whose handler let an
\* exception escape (unknown tool name, or an exception out of the client
\* operation) fails with the internal-error code and the message
\* "Tool execution failed: <cause>" and has no content block; an invocation
\* whose upstream failure came back as an envelope has a content block.
C18_EscapedBecomesInternalError ==
  server.variant = "stdio" =>
    \A r \in Records :
      Has(r, "result") =>
        IF Escaped(r) # <<>>
        THEN /\ r.result = [error |-> [code |-> "InternalError",
                                       message |-> <<"Tool execution failed: ">>
                                                   \o Escaped(r)[1].message]]
             /\ ~Has(r.result, "content")
        ELSE Has(r.result, "content") /\ ~Has(r.result, "error")

\* the stdio server has answered an invocation whose client operation
\* threw and one whose upstream failure came back as an envelope
C18_Witness ==
  /\ server.variant = "stdio"
  /\ \E r \in Records : UpstreamFailed(r) /\ r.api.threw /\ r.api.error.name = "ReferenceError"
  /\ \E r \in Records : UpstreamFailed(r) /\ ~r.api.threw /\ Has(r.result, "content")

\* the requests in flight other than one copy of x
Others(x) == inflight (-) SetToBag({x})

\* C19: a step (a delivery of a request, an upstream response, failure or
\* timeout in any order, an answer handed back) touches the record of one
\* invocation only: every other invocation in flight keeps its arguments,
\* its issued call and its result, and at most one record is new; two
\* invocations with the same arguments and the same upstream outcome have
\* the same result.
C19_InvocationsIndependent ==
  [][ /\ \/ inflight \sqsubseteq inflight'
         \/ \E x \in BagToSet(inflight) : Others(x) \sqsubseteq inflight'
      /\ BagCardinality(inflight' (-) inflight) <= 1
      /\ \A r1, r2 \in {r \in BagToSet(inflight') : Has(r, "name") /\ Has(r, "settled")} :
           (r1.name = r2.name /\ r1.args = r2.args /\ r1.settled = r2.settled)
             => r1.result = r2.result ]_vars

\* two invocations of the same tool are answered, one from a 2xx response
\* and one from a failure, while both were in flight together
C19_Witness ==
  \E r1, r2 \in Records :
    /\ r1.name = r2.name /\ r1.args = r2.args
    /\ UpstreamSucceeded(r1)
    /\ UpstreamFailed(r2)

\* the client operation returned a failure envelope for the invocation
ReturnedFailure(r) == UpstreamFailed(r) /\ ~r.api.threw

\* the failed response carries a detail
CarriesDetail(error) ==
  /\ Has(error, "response")
  /\ Has(error.response, "data")
  /\ Has(error.response.data, "detail")

\* C20 as stated: the error of a returned failure envelope is the detail
\* of the upstream error body whenever the failed response carries one,
\* and the transport error message otherwise.
C20_ErrorIsDetailOrMessage ==
  \A r \in Records :
    ReturnedFailure(r) =>
      r.api.value.error = (IF CarriesDetail(r.settled.error)
                           THEN r.settled.error.response.data.detail
                           ELSE r.settled.error.message)

\* C20 amended: the error of a returned failure envelope is the detail of
\* the upstream error body when the failed response carries a non-empty
\* one, and the transport error message in every other case: no response,
\* a body without detail, or an empty detail.
C20_ErrorIsNonEmptyDetailOrMessage ==
  \A r \in Records :
    ReturnedFailure(r) =>
      r.api.value.error = (IF /\ CarriesDetail(r.settled.error)
                              /\ r.settled.error.response.data.detail # <<>>
                           THEN r.settled.error.response.data.detail
                           ELSE r.settled.error.message)

\* one envelope took its error from the detail, another, whose response
\* carried an empty detail, from the transport message
C20_Witness ==
  /\ \E r \in Records :
       /\ ReturnedFailure(r)
       /\ r.api.value.error = <<"Invalid coordinates">>
  /\ \E r \in Records :
       /\ ReturnedFailure(r)
       /\ CarriesDetail(r.settled.error)
       /\ r.api.value.error = r.settled.error.message

\* the invocation's upstream call was issued and has settled
Settled(r) == r.st = "done" /\ Has(r, "settled") /\ Len(r.calls) = 1

\* the answer of a settled invocation when every logging call on its way
\* returns normally: the envelope of the client operation, unwrapped
AnswerIfLoggingReturns(r) ==
  Reply(server.variant,
        Return(Unwrap(IF r.settled.ok
                      THEN SuccessEnvelope(r.settled.response)
                      ELSE FailureEnvelope(r.settled.error,
                                           ApiFallback(ToolOp(r.name), r.request)))))

\* C21: whatever goes wrong in a logging call made during an invocation
\* (the append to the log file fails, or the call itself fails), the
\* invocation has the answer it has when the logging call returns
\* normally, and no error raised by a logging call reaches the caller.
C21_LoggingNeverReachesCaller ==
  \A r \in Records :
    Settled(r) =>
      /\ ~(r.api.threw /\ r.api.error = ReferenceError("Logger"))
      /\ r.result = AnswerIfLoggingReturns(r)

\* the descriptor getTools lists under the name
Descriptor(name) == CHOOSE d \in Range(getTools) : d.name = name

\* the arguments are accepted by the tool's input schema as getTools
\* documents it: required properties, no property it does not list,
\* minimum and maximum, enum, and the waypoint items
Documented(name, args) ==
  /\ name \in ToolNames
  /\ Range(Descriptor(name).required) \subseteq DOMAIN args
  /\ DOMAIN args \subseteq Descriptor(name).properties
  /\ name = "camino_query" =>
       (InRange(args, "radius", 100, 50000) /\ InRange(args, "limit", 1, 100))
  /\ name = "camino_spatial_relationship" =>
       (Has(args, "include") => Range(args.include) \subseteq Range(AllInclude))
  /\ name = "camino_journey_planning" =>
       (DocumentedWaypoints(args)
        /\ InEnum(args, "transport_mode", {"walking", "driving", "cycling"}))
  /\ name = "camino_route_planning" => InEnum(args, "mode", {"car", "bike", "foot"})

OtherVariant(v) == IF v = "stdio" THEN "session" ELSE "stdio"

\* the record of the same request under the other server variant, with
\* the same API configuration, once its upstream call has settled the way
\* r's has
UnderOtherVariant(r) ==
  LET other == [server EXCEPT !.variant = OtherVariant(server.variant)]
      rec == Start(LoggerOf(proc), other, [name |-> r.name, args |-> r.args])
  IN  IF rec.st = "pending" /\ Has(r, "settled")
      THEN Finish(other, rec, r.settled)
      ELSE rec

\* C22: for arguments the documented schema of the tool accepts, the
\* server that runs and the other variant issue the same upstream request,
\* and for the same upstream outcome they return the same result.
C22_VariantsEquivalent ==
  \A r \in Records :
    Documented(r.name, r.args) =>
      /\ UnderOtherVariant(r).calls = r.calls
      /\ UnderOtherVariant(r).st = r.st
      /\ Has(r, "result") =>
           (Has(UnderOtherVariant(r), "result") /\ UnderOtherVariant(r).result = r.result)

\* o.k as a sequence: <<>> when the property is absent
Opt(o, k) == IF Has(o, k) THEN <<o[k]>> ELSE <<>>

\* what the issued call carries for the argument f of the tool
Wire(c, name, f) ==
  CASE name = "camino_query" ->
         Opt(c.params, CASE f = "query" -> "q" [] f = "latitude" -> "lat"
                         [] f = "longitude" -> "lon" [] f = "generate_answer" -> "answer"
                         [] OTHER -> f)
    [] name = "camino_search" -> Opt(c.params, "q")
    [] name = "camino_spatial_relationship" -> Opt(c.body, f)
    [] name = "camino_place_context" -> Opt(c.body, f)
    [] name = "camino_journey_planning" ->
         IF f = "transport_mode" THEN Opt(c.body.constraints, "transport")
         ELSE Opt(c.body.constraints, f)
    [] name = "camino_route_planning" -> Opt(c.params, f)

\* the optional arguments the caller supplied
SuppliedOptions(r) == DOMAIN r.args \ Range(Descriptor(r.name).required)

\* C23: in the stdio dispatcher, every optional argument the caller
\* supplies with a value its declared schema allows is carried by the
\* upstream call with exactly that value.
C23_ExplicitValuesForwarded ==
  server.variant = "stdio" =>
    \A r \in Records :
      (Len(r.calls) = 1 /\ Documented(r.name, r.args)) =>
        \A f \in SuppliedOptions(r) : Wire(TheCall(r), r.name, f) = <<r.args[f]>>

\* every line appended to the log file: by startup and by the requests in flight
LogLines ==
  Range(proc.log) \cup UNION {Range(r.log) : r \in Records}

\* sub occurs in seq as a run of consecutive elements
Contains(seq, sub) ==
  \E i \in 0..(Len(seq) - Len(sub)) : SubSeq(seq, i + 1, i + Len(sub)) = sub

\* C24: no line of the log file contains the complete configured API key:
\* the startup line carries at most the first 8 characters of the key and
\* not the whole key, and no other line carries anything of the
\* configuration.
C24_KeyNeverLogged ==
  KeyPresent(proc.env) =>
    \A e \in LogLines :
      IF Has(e, "data") /\ Has(e.data, "apiKeyPrefix")
      THEN /\ Len(e.data.apiKeyPrefix) <= 8
           /\ ~Contains(e.data.apiKeyPrefix, Chars(proc.env.CAMINO_API_KEY))
      ELSE Has(e, "data") => DOMAIN e.data = {"name", "args"}

====
